---- MODULE Spec2Model ----
(***************************************************************************)
(* Pajek partition (.clu) reader and writer of networkx_pajek_util:        *)
(* parse_pajek_communities / read_pajek_communities turn text lines into a *)
(* list of communities, generate_pajek_communities /                       *)
(* write_pajek_communities turn a list of communities back into lines.     *)
(* A text is a sequence of characters (one-character strings), so that     *)
(* split(), lower(), startswith(), int() and the f-string formatting are   *)
(* computed on the characters as Python computes them.                     *)
(***************************************************************************)
EXTENDS Integers, Sequences, FiniteSets, TLC

VARIABLES mode, lines, file, communities, out, reparsed, written, pc

vars == <<mode, lines, file, communities, out, reparsed, written, pc>>

(* ------------------------------ bounds --------------------------------- *)

\* longest input, in lines, handed to the parser
MaxLines == 4
\* longest file, in lines, handed to the reader
MaxFileLines == 3
\* most vertices of a partition handed to the generator
MaxVertices == 3
\* most communities of a partition handed to the generator
MaxComms == 3

(* ------------------------- Python text primitives ---------------------- *)

UpperCase == <<"A", "B", "C", "D", "E", "F", "G", "H", "I", "J", "K", "L", "M",
               "N", "O", "P", "Q", "R", "S", "T", "U", "V", "W", "X", "Y", "Z">>

LowerCase == <<"a", "b", "c", "d", "e", "f", "g", "h", "i", "j", "k", "l", "m",
               "n", "o", "p", "q", "r", "s", "t", "u", "v", "w", "x", "y", "z">>

Digits == <<"0", "1", "2", "3", "4", "5", "6", "7", "8", "9">>

Whitespace == {" ", "\t", "\r", "\n"}

Range(s) == {s[i] : i \in DOMAIN s}

\* str.lower() on one character
LowerChar(c) ==
    IF \E i \in DOMAIN UpperCase : UpperCase[i] = c
    THEN LowerCase[CHOOSE i \in DOMAIN UpperCase : UpperCase[i] = c]
    ELSE c

\* l.lower()
lower(s) == [i \in DOMAIN s |-> LowerChar(s[i])]

\* s.startswith(prefix)
startswith(s, prefix) ==
    /\ Len(s) >= Len(prefix)
    /\ \A i \in DOMAIN prefix : s[i] = prefix[i]

\* line.rstrip('\n')
RECURSIVE rstrip_newline(_)
rstrip_newline(s) ==
    IF s # <<>> /\ s[Len(s)] = "\n"
    THEN rstrip_newline(SubSeq(s, 1, Len(s) - 1))
    ELSE s

\* l.split(): the maximal runs of non-whitespace characters, in order
RECURSIVE SplitFrom(_, _, _)
SplitFrom(s, i, tok) ==
    IF i > Len(s)
    THEN IF tok = <<>> THEN <<>> ELSE <<tok>>
    ELSE IF s[i] \in Whitespace
         THEN IF tok = <<>> THEN SplitFrom(s, i + 1, <<>>)
              ELSE <<tok>> \o SplitFrom(s, i + 1, <<>>)
         ELSE SplitFrom(s, i + 1, Append(tok, s[i]))

split(s) == SplitFrom(s, 1, <<>>)

\* the text without its leading and trailing whitespace, as int() reads it
RECURSIVE strip(_)
strip(s) ==
    IF s = <<>> THEN s
    ELSE IF s[1] \in Whitespace THEN strip(Tail(s))
    ELSE IF s[Len(s)] \in Whitespace THEN strip(SubSeq(s, 1, Len(s) - 1))
    ELSE s

IsDigits(s) == s # <<>> /\ \A i \in DOMAIN s : s[i] \in Range(Digits)

Unsigned(s) ==
    IF s # <<>> /\ s[1] \in {"-", "+"} THEN Tail(s) ELSE s

\* int(s) does not raise ValueError
IsIntLiteral(s) == IsDigits(Unsigned(strip(s)))

DigitVal(c) == (CHOOSE i \in DOMAIN Digits : Digits[i] = c) - 1

RECURSIVE DigitsVal(_)
DigitsVal(s) ==
    IF s = <<>> THEN 0
    ELSE 10 * DigitsVal(SubSeq(s, 1, Len(s) - 1)) + DigitVal(s[Len(s)])

\* int(s), for a text int() accepts
int(s) ==
    LET t == strip(s)
    IN  IF t[1] = "-" THEN 0 - DigitsVal(Tail(t)) ELSE DigitsVal(Unsigned(t))

\* f"{n}": the decimal digits of n
RECURSIVE str(_)
str(n) ==
    IF n < 0 THEN <<"-">> \o str(0 - n)
    ELSE IF n < 10 THEN <<Digits[n + 1]>>
    ELSE str(n \div 10) \o <<Digits[(n % 10) + 1]>>

(* ------------------------------- parser -------------------------------- *)

VerticesKeyword == <<"*", "v", "e", "r", "t", "i", "c", "e", "s">>

\* the local variable `communities` before its first assignment
Unbound == [bound |-> FALSE, items |-> <<>>]

\* communities = defaultdict(list)
NewDict == [bound |-> TRUE, items |-> <<>>]

Raise(e) == [ok |-> FALSE, err |-> e, value |-> <<>>]

Returned(v) == [ok |-> TRUE, err |-> "none", value |-> v]

\* a grouping that records a new label in front of the labels seen so far
setdefault_append_front(d, community, vertex) ==
    IF \E i \in DOMAIN d.items : d.items[i].k = community
    THEN [d EXCEPT !.items =
            [i \in DOMAIN d.items |->
                IF d.items[i].k = community
                THEN [k |-> community, v |-> Append(d.items[i].v, vertex)]
                ELSE d.items[i]]]
    ELSE [d EXCEPT !.items = <<[k |-> community, v |-> <<vertex>>]>> \o d.items]

\* communities.setdefault(community, []).append(vertex): the dict keeps its
\* keys in insertion order
setdefault_append(d, community, vertex) ==
    IF \E i \in DOMAIN d.items : d.items[i].k = community
    THEN [d EXCEPT !.items =
            [i \in DOMAIN d.items |->
                IF d.items[i].k = community
                THEN [k |-> community, v |-> Append(d.items[i].v, vertex)]
                ELSE d.items[i]]]
    ELSE [d EXCEPT !.items = Append(d.items, [k |-> community, v |-> <<vertex>>])]

\* a loop that reads one body line too many
RangeExhausted_offByOne(vertex, nnodes) == vertex > nnodes

\* range(int(nnodes)) hands out no further vertex
RangeExhausted(vertex, nnodes) == vertex >= nnodes

\* for vertex in range(int(nnodes)): l = next(lines); community = int(l); ...
RECURSIVE ReadSection(_, _, _, _, _)
ReadSection(ls, pos, vertex, nnodes, d) ==
    IF RangeExhausted(vertex, nnodes) THEN [err |-> "none", pos |-> pos, d |-> d]
    ELSE IF pos > Len(ls) THEN [err |-> "StopIteration", pos |-> pos, d |-> d]
    ELSE IF ~IsIntLiteral(ls[pos]) THEN [err |-> "ValueError", pos |-> pos, d |-> d]
    ELSE ReadSection(ls, pos + 1, vertex + 1, nnodes,
                     setdefault_append(d, int(ls[pos]), vertex))

\* return [ v for k,v in dict(communities).items() ]
ReturnCommunities(d) ==
    IF ~d.bound THEN Raise("UnboundLocalError")
    ELSE Returned([i \in DOMAIN d.items |-> d.items[i].v])

\* a header test on the first whitespace-delimited token instead of the prefix
IsHeaderLine_firstToken(l) ==
    split(l) # <<>> /\ lower(split(l)[1]) = VerticesKeyword

\* the line is taken as a section header
IsHeaderLine(l) == startswith(lower(l), VerticesKeyword)

\* the while loop: pos is the next line the iterator hands out
RECURSIVE ParseLoop(_, _, _)
ParseLoop(ls, pos, d) ==
    IF pos > Len(ls) THEN ReturnCommunities(d)
    ELSE LET l == ls[pos]
         IN  IF IsHeaderLine(l)
             THEN LET toks == split(l)
                  IN  IF Len(toks) # 2 THEN Raise("ValueError")
                      ELSE IF ~IsIntLiteral(toks[2]) THEN Raise("ValueError")
                      ELSE LET s == ReadSection(ls, pos + 1, 0, int(toks[2]), NewDict)
                           IN  IF s.err # "none" THEN Raise(s.err)
                               ELSE ParseLoop(ls, s.pos, s.d)
             ELSE ReturnCommunities(d)

\* ls is the iterable of lines; a str argument is first split on "\n" into
\* such a list (line 77), after which the function proceeds identically
parse_pajek_communities(ls) ==
    ParseLoop([i \in DOMAIN ls |-> rstrip_newline(ls[i])], 1, Unbound)

\* `for line in path` on a file: each line keeps its terminating "\n"
RECURSIVE FileLinesFrom(_, _, _)
FileLinesFrom(f, i, cur) ==
    IF i > Len(f)
    THEN IF cur = <<>> THEN <<>> ELSE <<cur>>
    ELSE IF f[i] = "\n"
         THEN <<Append(cur, "\n")>> \o FileLinesFrom(f, i + 1, <<>>)
         ELSE FileLinesFrom(f, i + 1, Append(cur, f[i]))

FileLines(f) == FileLinesFrom(f, 1, <<>>)

read_pajek_communities(f) == parse_pajek_communities(FileLines(f))

(* ------------------------------ generator ------------------------------ *)

RECURSIVE SumLen(_)
SumLen(cs) == IF cs = <<>> THEN 0 ELSE Len(Head(cs)) + SumLen(Tail(cs))

Min(S) == CHOOSE x \in S : \A y \in S : x <= y

Max(S) == CHOOSE x \in S : \A y \in S : x >= y

\* a scan that extracts the largest remaining vertex instead of the smallest
MinVertex_max(cl) ==
    Max({Max(Range(cl[i])) : i \in {j \in DOMAIN cl : cl[j] # <<>>}})

\* min([min(item) for item in communities_list if item])
MinVertex(cl) ==
    Min({Min(Range(cl[i])) : i \in {j \in DOMAIN cl : cl[j] # <<>>}})

\* next(i for i,v in enumerate(communities_list) if vertex in v), one-based
OwnerOf(cl, vertex) ==
    Min({i \in DOMAIN cl : vertex \in Range(cl[i])})

\* a removal by position (pop) instead of by value
remove_pop(s, x) == SubSeq(s, 1, Len(s) - 1)

\* list.remove(x): drops the first occurrence of x
remove(s, x) ==
    LET i == Min({j \in DOMAIN s : s[j] = x})
    IN  SubSeq(s, 1, i - 1) \o SubSeq(s, i + 1, Len(s))

\* for n in range(0, nnodes): ... yield f"{community+1}" ...
RECURSIVE GenerateBody(_, _, _)
GenerateBody(cl, n, nnodes) ==
    IF n >= nnodes THEN <<>>
    ELSE LET vertex == MinVertex(cl)
             community == OwnerOf(cl, vertex) - 1
         IN  <<str(community + 1)>> \o
             GenerateBody([cl EXCEPT ![community + 1] = remove(@, vertex)],
                          n + 1, nnodes)

HeaderPrefix == <<"*", "V", "e", "r", "t", "i", "c", "e", "s", " ">>

generate_pajek_communities(cs) ==
    LET nnodes == SumLen(cs)
    IN  <<HeaderPrefix \o str(nnodes)>> \o GenerateBody(cs, 0, nnodes)

CRLF == <<"\r", "\n">>

RECURSIVE Concat(_)
Concat(ls) == IF ls = <<>> THEN <<>> ELSE Head(ls) \o Concat(Tail(ls))

\* line += '\r\n'; path.write(line.encode(encoding))
write_pajek_communities(cs) ==
    LET g == generate_pajek_communities(cs)
    IN  Concat([i \in DOMAIN g |-> g[i] \o CRLF])

(* ------------------------------- inputs -------------------------------- *)

Line_Vertices2 == <<"*", "V", "e", "r", "t", "i", "c", "e", "s", " ", "2">>
Line_Vertices3 == <<"*", "V", "e", "r", "t", "i", "c", "e", "s", " ", "3">>
Line_vertices1 == <<"*", "v", "e", "r", "t", "i", "c", "e", "s", " ", "1">>
Line_VerticesAlone == <<"*", "V", "e", "r", "t", "i", "c", "e", "s">>
Line_VerticesX == <<"*", "V", "e", "r", "t", "i", "c", "e", "s", " ", "x">>
Line_VerticesNeg == <<"*", "V", "e", "r", "t", "i", "c", "e", "s", " ", "-", "1">>
Line_VerticesGlued == <<"*", "V", "e", "r", "t", "i", "c", "e", "s", "X", " ", "2">>
Line_Vertices3Tok == <<"*", "V", "e", "r", "t", "i", "c", "e", "s", " ", "1", " ", "2">>
Line_1 == <<"1">>
Line_2 == <<"2">>
Line_3 == <<"3">>
Line_abc == <<"a", "b", "c">>
Line_blank == <<>>

InputLines ==
    {Line_Vertices2, Line_Vertices3, Line_vertices1, Line_VerticesAlone, Line_VerticesX,
     Line_VerticesNeg, Line_VerticesGlued, Line_Vertices3Tok,
     Line_1, Line_2, Line_3, Line_abc, Line_blank}

SeqsUpTo(S, n) == UNION {[1..k -> S] : k \in 0..n}

TextInputs == SeqsUpTo(InputLines, MaxLines)

\* a file: its lines, each ended by CRLF as the writer ends them
FileOf(ls) == Concat([i \in DOMAIN ls |-> ls[i] \o CRLF])

FileInputs == {FileOf(ls) : ls \in SeqsUpTo(InputLines, MaxFileLines)}

Injective(s) == \A i, j \in DOMAIN s : s[i] = s[j] => i = j

\* every ordering of the vertex indices 0..n-1
Orders(n) == {s \in [1..n -> 0..(n - 1)] : Injective(s)}

\* the communities of an owner map, each storing its members in the order
\* they have in `order`
Grouped(owner, order, c) ==
    [i \in 1..c |-> SelectSeq(order, LAMBDA v : owner[v] = i)]

\* the partitions with invariant I1: the indices are exactly 0..n-1, once
\* each; a community may be empty and may store its members in any order
PartitionInputs ==
    UNION {UNION {{Grouped(owner, order, c) :
                     owner \in [0..(n - 1) -> 1..c], order \in Orders(n)}
                  : c \in 0..MaxComms}
           : n \in 0..MaxVertices}

(* --------------------------- state machine ----------------------------- *)

NoResult == [ok |-> FALSE, err |-> "not run", value |-> <<>>]

Init ==
    /\ pc = "start"
    /\ out = <<>>
    /\ reparsed = NoResult
    /\ written = <<>>
    /\ \/ /\ mode = "text"
          /\ lines \in TextInputs
          /\ file = <<>>
          /\ communities = NoResult
       \/ /\ mode = "file"
          /\ lines = <<>>
          /\ file \in FileInputs
          /\ communities = NoResult
       \/ /\ mode = "partition"
          /\ lines = <<>>
          /\ file = <<>>
          /\ \E p \in PartitionInputs : communities = Returned(p)

\* communities = parse_pajek_communities(lines)
Parse ==
    /\ mode = "text" /\ pc = "start"
    /\ communities' = parse_pajek_communities(lines)
    /\ pc' = "parsed"
    /\ UNCHANGED <<mode, lines, file, out, reparsed, written>>

\* communities_pajek = read_pajek_communities('simple.clu')
Read ==
    /\ mode = "file" /\ pc = "start"
    /\ communities' = read_pajek_communities(file)
    /\ pc' = "parsed"
    /\ UNCHANGED <<mode, lines, file, out, reparsed, written>>

\* list(generate_pajek_communities(communities))
Generate ==
    /\ \/ mode = "text" /\ pc = "parsed"
       \/ mode = "partition" /\ pc = "start"
    /\ communities.ok
    /\ out' = generate_pajek_communities(communities.value)
    /\ pc' = "generated"
    /\ UNCHANGED <<mode, lines, file, communities, reparsed, written>>

\* parse_pajek_communities(generate_pajek_communities(communities))
Reparse ==
    /\ pc = "generated"
    /\ reparsed' = parse_pajek_communities(out)
    /\ pc' = "reparsed"
    /\ UNCHANGED <<mode, lines, file, communities, out, written>>

\* write_pajek_communities(communities_pajek, "test.clu")
Write ==
    /\ mode = "file" /\ pc = "parsed"
    /\ communities.ok
    /\ written' = write_pajek_communities(communities.value)
    /\ pc' = "written"
    /\ UNCHANGED <<mode, lines, file, communities, out, reparsed>>

Next == Parse \/ Read \/ Generate \/ Reparse \/ Write

Spec == Init /\ [][Next]_vars

TypeOK ==
    /\ mode \in {"text", "file", "partition"}
    /\ pc \in {"start", "parsed", "generated", "reparsed", "written"}
    /\ communities.ok \in BOOLEAN

(* --------------------- vocabulary of the properties -------------------- *)

RECURSIVE SortedSeq(_)
SortedSeq(S) ==
    IF S = {} THEN <<>>
    ELSE LET m == CHOOSE x \in S : \A y \in S : x <= y
         IN  <<m>> \o SortedSeq(S \ {m})

\* a partition up to the order in which each community stores its members
MemberSets(p) == [i \in DOMAIN p |-> Range(p[i])]

AllIndices(p) == UNION {Range(p[i]) : i \in DOMAIN p}

\* invariant I1 for n vertices: the indices are exactly 0..n-1, once each
IsPartitionOf(p, n) ==
    /\ AllIndices(p) = 0..(n - 1)
    /\ \A i \in DOMAIN p : Injective(p[i])
    /\ \A i, j \in DOMAIN p : i # j => Range(p[i]) \cap Range(p[j]) = {}

\* the first whitespace-delimited token is `*Vertices`, case-insensitively
FirstTokenIsKeyword(l) ==
    LET toks == SplitFrom(l, 1, <<>>)
    IN  toks # <<>> /\ lower(toks[1]) = VerticesKeyword

\* the text begins with `*vertices`, case-insensitively
BeginsWithKeyword(l) ==
    Len(l) >= 9 /\ lower(SubSeq(l, 1, 9)) = VerticesKeyword

\* two tokens, the second an integer
HasCount(l) ==
    LET toks == SplitFrom(l, 1, <<>>)
    IN  Len(toks) = 2 /\ IsIntLiteral(toks[2])

CountOf(l) == int(SplitFrom(l, 1, <<>>)[2])

\* `*Vertices N` with N >= 0
WellFormedHeader(l) ==
    FirstTokenIsKeyword(l) /\ HasCount(l) /\ CountOf(l) >= 0

\* ls[h] is a header announcing n lines and n integer lines follow it
SectionAt(ls, h, n) ==
    /\ h \in DOMAIN ls
    /\ HasCount(ls[h]) /\ CountOf(ls[h]) = n /\ n >= 0
    /\ Len(ls) >= h + n
    /\ \A i \in (h + 1)..(h + n) : IsIntLiteral(ls[i])

\* the labels of the n body lines after ls[h], by body position 1..n
Labels(ls, h, n) == [i \in 1..n |-> int(ls[h + i])]

\* one community per distinct label, in order of first appearance, holding
\* the zero-based positions of the label in ascending order
FirstAppearancePartition(labs) ==
    LET firsts == SortedSeq({i \in DOMAIN labs :
                                \A j \in 1..(i - 1) : labs[j] # labs[i]})
    IN  [k \in DOMAIN firsts |->
            SortedSeq({i - 1 : i \in {j \in DOMAIN labs : labs[j] = labs[firsts[k]]}})]

\* the one-based position of the community of p that holds vertex v
PositionOf(p, v) == CHOOSE i \in DOMAIN p : v \in Range(p[i])

\* no community is empty and the communities are listed by increasing
\* smallest member
ListedByFirstMember(p) ==
    /\ \A i \in DOMAIN p : p[i] # <<>>
    /\ \A i, j \in DOMAIN p :
          i < j => \A w \in Range(p[j]) : \E v \in Range(p[i]) : v < w

(* ------------------------------ properties ----------------------------- *)

\* C1 (as stated): for every partition P with invariant I1, parsing the lines
\* generated from P returns the communities of P in the same order with the
\* same members.
C1_RoundTripAnyPartition ==
    (mode = "partition" /\ pc = "reparsed") =>
        /\ reparsed.ok
        /\ MemberSets(reparsed.value) = MemberSets(communities.value)

\* C1 (amended): the round trip returns P when P has no empty community and
\* lists its communities by increasing smallest member, whatever the order in
\* which each community stores its members.
C1_RoundTripListedByFirstMember ==
    (mode = "partition" /\ pc = "reparsed" /\ ListedByFirstMember(communities.value)) =>
        /\ reparsed.ok
        /\ MemberSets(reparsed.value) = MemberSets(communities.value)

C1_Witness ==
    /\ mode = "partition" /\ pc = "reparsed"
    /\ communities.value = <<<<2, 0>>, <<1>>>>
    /\ reparsed.value = <<<<0, 2>>, <<1>>>>

\* C2: an input without any `*Vertices` header line (in particular an input
\* without lines) parses to the empty partition and raises no error.
C2_NoHeaderGivesEmptyPartition ==
    (mode = "text" /\ pc = "parsed"
       /\ \A i \in DOMAIN lines : ~FirstTokenIsKeyword(lines[i])) =>
        communities = Returned(<<>>)

\* C3: for a partition with invariant I1 over N vertices the generator yields
\* `*Vertices N` and then N lines, line i+1 being the one-based position of
\* the community that holds vertex i (the inverse-array output).
C3_GeneratorReconstruction ==
    (mode = "partition" /\ pc = "generated") =>
        LET p == communities.value
            n == Cardinality(AllIndices(p))
        IN  /\ Len(out) = n + 1
            /\ out[1] = HeaderPrefix \o str(n)
            /\ \A i \in 0..(n - 1) : out[i + 2] = str(PositionOf(p, i))

C3_Witness ==
    /\ mode = "partition" /\ pc = "generated"
    /\ communities.value = <<<<2, 0>>, <<1>>>>
    /\ out = <<Line_Vertices3, Line_1, Line_2, Line_1>>

\* C4: for an input that is a header `*Vertices N` followed by N integer
\* lines, the parser returns one community per distinct label, in order of
\* first appearance, each holding exactly the positions of its label.
C4_FirstAppearanceGrouping ==
    (mode = "text" /\ pc = "parsed" /\ lines # <<>>
       /\ WellFormedHeader(lines[1])
       /\ SectionAt(lines, 1, CountOf(lines[1]))
       /\ Len(lines) = 1 + CountOf(lines[1])) =>
        /\ communities.ok
        /\ MemberSets(communities.value) =
             MemberSets(FirstAppearancePartition(Labels(lines, 1, CountOf(lines[1]))))
        /\ IsPartitionOf(communities.value, CountOf(lines[1]))

C4_Witness ==
    /\ mode = "text" /\ pc = "parsed"
    /\ lines = <<Line_Vertices3, Line_3, Line_1, Line_3>>
    /\ communities = Returned(<<<<0, 2>>, <<1>>>>)

\* C5 (as stated): lines after the N-th body line, whatever they are, do not
\* change the result: it is the partition of the header and its N lines.
C5_TrailingLinesIgnored ==
    (mode = "text" /\ pc = "parsed" /\ lines # <<>>
       /\ WellFormedHeader(lines[1])
       /\ SectionAt(lines, 1, CountOf(lines[1]))
       /\ Len(lines) > 1 + CountOf(lines[1])) =>
        communities =
            Returned(FirstAppearancePartition(Labels(lines, 1, CountOf(lines[1]))))

\* C5 (amended): the lines after the N-th body line are ignored when the
\* first of them does not begin with `*vertices` (case-insensitively).
C5_TrailingNonHeaderIgnored ==
    (mode = "text" /\ pc = "parsed" /\ lines # <<>>
       /\ WellFormedHeader(lines[1])
       /\ SectionAt(lines, 1, CountOf(lines[1]))
       /\ Len(lines) > 1 + CountOf(lines[1])
       /\ ~BeginsWithKeyword(lines[2 + CountOf(lines[1])])) =>
        communities =
            Returned(FirstAppearancePartition(Labels(lines, 1, CountOf(lines[1]))))

C5_Witness ==
    /\ mode = "text" /\ pc = "parsed"
    /\ lines = <<Line_vertices1, Line_2, Line_abc, Line_Vertices2>>
    /\ communities = Returned(<<<<0>>>>)

\* the failures C6 names: fewer than n lines after the header, or one of the
\* first n body lines is not an integer
BodyFails(ls, n) ==
    \/ Len(ls) - 1 < n
    \/ \E i \in 2..(n + 1) : i \in DOMAIN ls /\ ~IsIntLiteral(ls[i])

\* C6 (as stated): when the header declares N, the parser fails or returns a
\* partition of exactly 0..N-1; it fails when fewer than N lines follow or
\* one of the first N body lines is not an integer.
C6_NoPartialPartition ==
    (mode = "text" /\ pc = "parsed" /\ lines # <<>>
       /\ FirstTokenIsKeyword(lines[1]) /\ HasCount(lines[1])) =>
        /\ communities.ok => IsPartitionOf(communities.value, CountOf(lines[1]))
        /\ BodyFails(lines, CountOf(lines[1])) => ~communities.ok

\* C6 (amended): the same, for the inputs in which the line after the N-th
\* body line, if there is one, does not begin with `*vertices`.
C6_NoPartialPartitionOneSection ==
    (mode = "text" /\ pc = "parsed" /\ lines # <<>>
       /\ BeginsWithKeyword(lines[1]) /\ HasCount(lines[1])) =>
        LET n == CountOf(lines[1])
            m == IF n < 0 THEN 0 ELSE n
        IN  /\ (communities.ok /\ (Len(lines) > 1 + m => ~BeginsWithKeyword(lines[2 + m])))
                  => IsPartitionOf(communities.value, n)
            /\ BodyFails(lines, n) => ~communities.ok

C6_Witness ==
    /\ mode = "text" /\ pc = "parsed"
    /\ lines = <<Line_Vertices3, Line_1, Line_2>>
    /\ communities = Raise("StopIteration")

\* C7: a header line that does not split into exactly two tokens, or whose
\* second token is not a non-negative integer, makes the parser fail.
C7_MalformedHeaderFails ==
    (mode = "text" /\ pc = "parsed" /\ lines # <<>>
       /\ FirstTokenIsKeyword(lines[1]) /\ ~WellFormedHeader(lines[1])) =>
        ~communities.ok

\* C8: for a text the parser accepts, parsing the lines generated from the
\* parsed partition returns that partition again.
C8_ReparseStable ==
    (mode = "text" /\ pc = "reparsed") =>
        /\ communities.ok
        /\ reparsed = communities

C8_Witness ==
    /\ mode = "text" /\ pc = "reparsed"
    /\ lines = <<Line_Vertices3, Line_3, Line_1, Line_3>>
    /\ out = <<Line_Vertices3, Line_1, Line_2, Line_1>>
    /\ reparsed = Returned(<<<<0, 2>>, <<1>>>>)

\* the file is `*Vertices N` and N integer label lines, each ended by CRLF
WellFormedFile(f) ==
    \E ls \in SeqsUpTo(InputLines, MaxFileLines) :
        /\ f = FileOf(ls) /\ ls # <<>>
        /\ startswith(ls[1], HeaderPrefix) /\ WellFormedHeader(ls[1])
        /\ SectionAt(ls, 1, CountOf(ls[1]))
        /\ Len(ls) = 1 + CountOf(ls[1])

\* C9: reading a well-formed file and writing the result gives a file
\* identical to the one read.
C9_ReadWriteIdentical ==
    (mode = "file" /\ pc = "written" /\ WellFormedFile(file)) => written = file

\* C10 (as stated): the lines before the first line whose first token is
\* `*Vertices` (case-insensitively) are skipped, and the parser returns the
\* partition of that header and its N label lines; a line such as
\* `*VerticesX 2` is not the header.
C10_SeeksHeader ==
    (mode = "text" /\ pc = "parsed") =>
        \A h \in DOMAIN lines :
            (/\ \A i \in 1..(h - 1) : ~FirstTokenIsKeyword(lines[i])
             /\ WellFormedHeader(lines[h])
             /\ SectionAt(lines, h, CountOf(lines[h]))
             /\ Len(lines) = h + CountOf(lines[h])) =>
                communities =
                    Returned(FirstAppearancePartition(Labels(lines, h, CountOf(lines[h]))))

\* C10 (amended): only the first line is examined as the header, and it is
\* one exactly when its text begins with `*vertices` (case-insensitively):
\* then, with a non-negative count N and N label lines after it, the parser
\* returns their partition, also for `*VerticesX 2`; otherwise nothing is
\* skipped and no community of a later header is returned.
C10_HeaderIsFirstLineByPrefix ==
    (mode = "text" /\ pc = "parsed" /\ lines # <<>>) =>
        /\ (/\ BeginsWithKeyword(lines[1])
            /\ SectionAt(lines, 1, CountOf(lines[1]))
            /\ Len(lines) = 1 + CountOf(lines[1])) =>
               communities =
                   Returned(FirstAppearancePartition(Labels(lines, 1, CountOf(lines[1]))))
        /\ ~BeginsWithKeyword(lines[1]) => ~(communities.ok /\ communities.value # <<>>)

C10_Witness ==
    /\ mode = "text" /\ pc = "parsed"
    /\ lines = <<Line_VerticesGlued, Line_2, Line_1>>
    /\ communities = Returned(<<<<0>>, <<1>>>>)

C10_WitnessNotSkipped ==
    /\ mode = "text" /\ pc = "parsed"
    /\ lines = <<Line_abc, Line_vertices1, Line_1>>
    /\ ~communities.ok

====
